---- MODULE Spec2Model ----
(***************************************************************************)
(* Model of package timeago (src/timeago.go): fuzzy formatting of the      *)
(* duration between a time and a reference time.                           *)
(*                                                                         *)
(* time.Duration is a signed 64-bit count of nanoseconds and round() goes  *)
(* through float64.  TLC's integers are 32 bits wide, so a natural number  *)
(* is kept as a little-endian sequence of limbs in base 2^15 (<<>> is 0,   *)
(* no leading zero limb), a duration as a sign and a magnitude, and a      *)
(* float64 as a 53-bit significand with a binary exponent, rounded to      *)
(* nearest, ties to even, as IEEE 754 does.                                *)
(*                                                                         *)
(* The Russian and Chinese string tables are transliterated to ASCII; the  *)
(* strings are data and no operation of the package looks inside them      *)
(* except to count the '%' signs.                                          *)
(***************************************************************************)
EXTENDS Integers, Sequences, FiniteSets, TLC

(***************************************************************************)
(* Natural numbers of any size.                                            *)
(***************************************************************************)
Base == 2^15

\* F of the value of v: v is computed once, and before F
With(v, F(_)) == CHOOSE y \in {F(x) : x \in {v}} : TRUE

RECURSIVE Norm(_)
Norm(a) ==
    IF a = <<>> THEN <<>>
    ELSE IF a[Len(a)] = 0 THEN Norm(SubSeq(a, 1, Len(a) - 1))
    ELSE a

RECURSIVE FromInt(_)
FromInt(n) == IF n = 0 THEN <<>> ELSE <<n % Base>> \o FromInt(n \div Base)

Limb(a, i) == IF i <= Len(a) THEN a[i] ELSE 0

RECURSIVE CmpAt(_, _, _)
CmpAt(a, b, i) ==
    IF i = 0 THEN 0
    ELSE IF a[i] < b[i] THEN -1
    ELSE IF a[i] > b[i] THEN 1
    ELSE CmpAt(a, b, i - 1)

\* -1, 0 or 1 as a < b, a = b or a > b
Cmp(a, b) ==
    IF Len(a) < Len(b) THEN -1
    ELSE IF Len(a) > Len(b) THEN 1
    ELSE CmpAt(a, b, Len(a))

RECURSIVE AddC(_, _, _, _)
AddC(a, b, i, c) ==
    IF i > Len(a) /\ i > Len(b) THEN (IF c = 0 THEN <<>> ELSE <<c>>)
    ELSE LET x == Limb(a, i) + Limb(b, i) + c
         IN  <<x % Base>> \o AddC(a, b, i + 1, x \div Base)

Add(a, b) == AddC(a, b, 1, 0)

RECURSIVE SubB(_, _, _, _)
SubB(a, b, i, c) ==
    IF i > Len(a) THEN <<>>
    ELSE LET x == a[i] - Limb(b, i) - c
         IN  <<x % Base>> \o SubB(a, b, i + 1, IF x < 0 THEN 1 ELSE 0)

\* a - b, for a >= b
Sub(a, b) == Norm(SubB(a, b, 1, 0))

RECURSIVE MulC(_, _, _, _)
MulC(a, m, i, c) ==
    IF i > Len(a) THEN FromInt(c)
    ELSE LET x == a[i] * m + c
         IN  <<x % Base>> \o MulC(a, m, i + 1, x \div Base)

\* a * m + c, for m <= 2^15 and c < 2^15
MulSmall(a, m, c) == Norm(MulC(a, m, 1, c))

RECURSIVE DivRem(_, _, _)
DivRem(a, m, i) ==
    IF i > Len(a) THEN [q |-> <<>>, r |-> 0]
    ELSE LET hi  == DivRem(a, m, i + 1)
             cur == hi.r * Base + a[i]
         IN  [q |-> <<cur \div m>> \o hi.q, r |-> cur % m]

\* quotient and remainder of a by m, for 0 < m <= 2^15
DivSmall(a, m) == Norm(DivRem(a, m, 1).q)
ModSmall(a, m) == DivRem(a, m, 1).r

RECURSIVE Bits(_)
Bits(n) == IF n = 0 THEN 0 ELSE 1 + Bits(n \div 2)

BitLen(a) == IF a = <<>> THEN 0 ELSE 15 * (Len(a) - 1) + Bits(a[Len(a)])

Zeros(k) == [i \in 1..k |-> 0]

\* a * 2^k
ShiftLeft(a, k) ==
    IF a = <<>> THEN <<>>
    ELSE Zeros(k \div 15) \o MulSmall(a, 2^(k % 15), 0)

\* floor(a / 2^k)
ShiftRight(a, k) ==
    IF k \div 15 >= Len(a) THEN <<>>
    ELSE DivSmall(SubSeq(a, k \div 15 + 1, Len(a)), 2^(k % 15))

\* a number below 2^31 as an integer
RECURSIVE ToInt(_)
ToInt(a) == IF a = <<>> THEN 0 ELSE Head(a) + Base * ToInt(Tail(a))

\* the largest g with d * g <= r, from g on (d * g <= r)
RECURSIVE QUp(_, _, _)
QUp(r, d, g) == IF Cmp(MulSmall(d, g + 1, 0), r) <= 0 THEN QUp(r, d, g + 1) ELSE g

\* the quotient digit floor(r / d), for d <= r < d * 2^15: an estimate from
\* the leading 30 bits of a longer r, which is never too large and at most a
\* few units too small, then made exact
QDigit(r, d) ==
    LET Estimate(s) == ToInt(ShiftRight(r, s)) \div (ToInt(ShiftRight(d, s)) + 1)
    IN  IF BitLen(r) <= 30 THEN ToInt(r) \div ToInt(d)
        ELSE QUp(r, d, Estimate(BitLen(r) - 30))

\* long division of limbs i.. of n by d, most significant limb first
RECURSIVE DivModAt(_, _, _)
DivModAt(n, d, i) ==
    IF i > Len(n) THEN [q |-> <<>>, r |-> <<>>]
    ELSE LET Put(q, cur, g) == [q |-> <<g>> \o q, r |-> Sub(cur, MulSmall(d, g, 0))]
             Digit(q, cur) == Put(q, cur, IF Cmp(cur, d) < 0 THEN 0 ELSE QDigit(cur, d))
             Step(hi) == Digit(hi.q, Norm(<<n[i]>> \o hi.r))
         IN  With(DivModAt(n, d, i + 1), Step)

\* quotient and remainder of n by d > 0
DivMod(n, d) ==
    LET Result(x) == [q |-> Norm(x.q), r |-> x.r]
    IN  With(DivModAt(n, d, 1), Result)

RECURSIVE Digits(_)
Digits(a) == IF a = <<>> THEN <<>> ELSE Digits(DivSmall(a, 10)) \o <<ModSmall(a, 10)>>

RECURSIVE FromDigits(_)
FromDigits(ds) ==
    IF ds = <<>> THEN <<>>
    ELSE MulSmall(FromDigits(SubSeq(ds, 1, Len(ds) - 1)), 10, ds[Len(ds)])

RECURSIVE DigitString(_)
DigitString(ds) == IF ds = <<>> THEN "" ELSE ToString(Head(ds)) \o DigitString(Tail(ds))

\* the decimal text of a, as fmt's %d prints it
Itoa(a) == IF a = <<>> THEN "0" ELSE DigitString(Digits(a))

(***************************************************************************)
(* float64: the value m * 2^e with 2^52 <= m < 2^53.  Only positive,       *)
(* normal values arise: round() is called with positive durations.         *)
(***************************************************************************)
Mantissa == 53

\* the float64 nearest to (n + f) * 2^e, ties to even, where 0 <= f < 1 and
\* f > 0 exactly when sticky; n > 0
RoundToFloat(n, e, sticky) ==
    LET \* the rounded significand q of k dropped bits, renormalised
        Carry(q, k) ==
            IF BitLen(q) > Mantissa
            THEN [m |-> ShiftRight(q, 1), e |-> e + k + 1]
            ELSE [m |-> q, e |-> e + k]
        \* c compares the dropped bits with one half
        Nearest(q, k, c) ==
            Carry(IF c > 0 \/ (c = 0 /\ (sticky \/ q[1] % 2 = 1))
                  THEN Add(q, <<1>>) ELSE q, k)
        Cut(q, k) ==
            Nearest(q, k, Cmp(Sub(n, ShiftLeft(q, k)), ShiftLeft(<<1>>, k - 1)))
        Fit(len) ==
            IF len <= Mantissa
            THEN [m |-> ShiftLeft(n, Mantissa - len), e |-> e - (Mantissa - len)]
            ELSE With(ShiftRight(n, len - Mantissa), LAMBDA q : Cut(q, len - Mantissa))
    IN  With(BitLen(n), Fit)

\* float64(d) of an int64 d > 0
Float64(d) == RoundToFloat(d, 0, FALSE)

\* x / y in float64: the quotient of the significands to 60 fraction bits
\* and whether anything is left, rounded once
FloatDiv(x, y) ==
    LET Quotient(res) == RoundToFloat(res.q, x.e - y.e - 60, res.r # <<>>)
    IN  With(DivMod(ShiftLeft(x.m, 60), y.m), Quotient)

\* x + 0.5 in float64
FloatAddHalf(x) ==
    IF x.e <= -1
    THEN RoundToFloat(Add(x.m, ShiftLeft(<<1>>, -1 - x.e)), x.e, FALSE)
    ELSE RoundToFloat(MulSmall(ShiftLeft(x.m, x.e), 2, 1), -1, FALSE)

\* time.Duration(x): the fraction is dropped
FloatToInt(x) == IF x.e >= 0 THEN ShiftLeft(x.m, x.e) ELSE ShiftRight(x.m, -x.e)

\* Round the duration d in terms of step (both positive); the count fits
\* int64 for every step of at least a nanosecond and d below 2^63 - 512.
RoundCount(d, step, roundCloser) ==
    LET Result(r) == IF roundCloser THEN FloatToInt(FloatAddHalf(r)) ELSE FloatToInt(r)
    IN  With(FloatDiv(Float64(d), Float64(step)), Result)

(***************************************************************************)
(* Signed values: [neg, mag].  A time.Duration is an int64; a time.Time is *)
(* kept as its offset in nanoseconds from the base time of the tests,      *)
(* whose range is far wider than a Duration's.                             *)
(***************************************************************************)
Signed(neg, mag) == [neg |-> neg /\ mag # <<>>, mag |-> mag]
Pos(mag) == Signed(FALSE, mag)
Minus(mag) == Signed(TRUE, mag)

Two63 == ShiftLeft(<<1>>, 63)
maxDuration == Pos(Sub(Two63, <<1>>))
minDuration == Minus(Two63)

\* a < b
Less(a, b) ==
    IF a.neg # b.neg THEN a.neg
    ELSE IF a.neg THEN Cmp(a.mag, b.mag) > 0
    ELSE Cmp(a.mag, b.mag) < 0

GreaterEq(a, b) == ~Less(a, b)

\* -d in int64: the most negative value has no positive counterpart and
\* negates to itself
Negate(d) ==
    IF d.neg /\ d.mag = Two63 THEN d ELSE Signed(~d.neg, d.mag)

\* a - b, exactly
Difference(a, b) ==
    IF a.neg # b.neg THEN Signed(a.neg, Add(a.mag, b.mag))
    ELSE IF Cmp(a.mag, b.mag) >= 0 THEN Signed(a.neg, Sub(a.mag, b.mag))
    ELSE Signed(~a.neg, Sub(b.mag, a.mag))

\* t.Sub(u) of package time: the difference, or the largest or smallest
\* Duration when it does not fit
TimeSub(t, u) ==
    LET Saturate(d) ==
            IF Less(maxDuration, d) THEN maxDuration
            ELSE IF Less(d, minDuration) THEN minDuration
            ELSE d
    IN  With(Difference(t, u), Saturate)

(***************************************************************************)
(* Durations of package time and of timeago.                               *)
(***************************************************************************)
Nanosecond == <<1>>
Millisecond == FromInt(1000000)
Second == FromInt(1000000000)
Minute == MulSmall(Second, 60, 0)
Hour == MulSmall(Minute, 60, 0)
Day == MulSmall(Hour, 24, 0)
Month == MulSmall(Day, 30, 0)
Year == MulSmall(Day, 365, 0)

\* Round the duration d in terms of step.
round(d, step, roundCloser) == Pos(RoundCount(d.mag, step.mag, roundCloser))

(***************************************************************************)
(* Text.  A format string is kept as its pieces, a verb ("%d") or an       *)
(* escaped percent sign ("%%") being a piece of its own; d.String() is     *)
(* kept as its characters and unit names.                                  *)
(***************************************************************************)
RECURSIVE Join(_)
Join(pieces) == IF pieces = <<>> THEN "" ELSE Head(pieces) \o Join(Tail(pieces))

Count(pieces, piece) == Cardinality({i \in 1..Len(pieces) : pieces[i] = piece})

\* Count the number of parameters in a format string
nbParamInFormat(f) == (Count(f, "%d") + 2 * Count(f, "%%")) - 2 * Count(f, "%%")

\* fmt.Sprintf(layout, r) with the one argument r: the first verb prints it
Sprintf(layout, r) ==
    LET verbs(i) == Cardinality({j \in 1..i : layout[j] = "%d"})
    IN  Join([i \in 1..Len(layout) |->
                IF layout[i] = "%d"
                THEN (IF verbs(i) = 1 THEN Itoa(r.mag) ELSE "%!d(MISSING)")
                ELSE IF layout[i] = "%%" THEN "%"
                ELSE layout[i]])

DigitChars == {"0", "1", "2", "3", "4", "5", "6", "7", "8", "9"}
DigitOf(c) == CHOOSE k \in 0..9 : ToString(k) = c
Chars(ds) == [i \in 1..Len(ds) |-> ToString(ds[i])]

\* fmtInt of package time
fmtInt(v) == IF v = <<>> THEN <<"0">> ELSE Chars(Digits(v))

RECURSIVE TrimZeros(_)
TrimZeros(ds) ==
    IF ds = <<>> THEN <<>>
    ELSE IF ds[Len(ds)] = 0 THEN TrimZeros(SubSeq(ds, 1, Len(ds) - 1))
    ELSE ds

\* fmtFrac of package time: the fraction of v / 10^prec without its trailing
\* zeros (with its point, if any is left), and the whole part
fmtFrac(v, prec) ==
    LET Result(frac, whole) ==
            [text |-> IF frac = <<>> THEN <<>> ELSE <<".">> \o Chars(frac), v |-> whole]
        Fraction(ds) == TrimZeros(Zeros(prec - Len(ds)) \o ds)
        Split(qr) == Result(Fraction(Digits(qr.r)), qr.q)
    IN  With(DivMod(v, FromInt(10^prec)), Split)

\* d.String() of package time
DurationString(d) ==
    LET sign == IF d.neg THEN <<"-">> ELSE <<>>
        \* less than a second: the unit is ns, us or ms
        Small(f, unit) == sign \o fmtInt(f.v) \o f.text \o <<unit, "s">>
        Large(f, secs, mins) ==
            sign
            \o (IF mins.q # <<>> THEN fmtInt(mins.q) \o <<"h">> ELSE <<>>)
            \o (IF secs.q # <<>> THEN fmtInt(mins.r) \o <<"m">> ELSE <<>>)
            \o fmtInt(secs.r) \o f.text \o <<"s">>
        Minutes(f, secs) == With(DivMod(secs.q, <<60>>), LAMBDA mins : Large(f, secs, mins))
        Seconds(f) == With(DivMod(f.v, <<60>>), LAMBDA secs : Minutes(f, secs))
    IN  IF d.mag = <<>> THEN <<"0", "s">>
        ELSE IF Cmp(d.mag, FromInt(1000)) < 0
        THEN With(fmtFrac(d.mag, 0), LAMBDA f : Small(f, "n"))
        ELSE IF Cmp(d.mag, Millisecond) < 0
        THEN With(fmtFrac(d.mag, 3), LAMBDA f : Small(f, "u"))
        ELSE IF Cmp(d.mag, Second) < 0
        THEN With(fmtFrac(d.mag, 6), LAMBDA f : Small(f, "m"))
        ELSE With(fmtFrac(d.mag, 9), Seconds)

IsDigit(c) == c \in DigitChars

\* strconv.Atoi on a 64-bit platform: a value out of range is the largest
\* int (with an error)
Atoi(cs) ==
    LET InRange(v) == IF Cmp(v, maxDuration.mag) > 0 THEN maxDuration.mag ELSE v
    IN  With(FromDigits([i \in 1..Len(cs) |-> DigitOf(cs[i])]), InRange)

\* durationNumber Get number from time.Duration
durationNumber(d) == With(SelectSeq(DurationString(d), IsDigit), Atoi)

(***************************************************************************)
(* The predefined configurations.  A FormatPeriod is [D, One, Few, Many,   *)
(* Other]; a Config is [LocaleID, PastPrefix, PastSuffix, FuturePrefix,    *)
(* FutureSuffix, Periods, Zero, Max, DefaultLayout].                       *)
(***************************************************************************)
\* Predefined english configuration
English ==
    [LocaleID |-> "en",
     PastPrefix |-> "", PastSuffix |-> " ago",
     FuturePrefix |-> "in ", FutureSuffix |-> "",
     Periods |-> <<
        [D |-> Pos(Second), One |-> <<"about a second">>, Few |-> <<>>, Many |-> <<>>, Other |-> <<"%d", " seconds">>],
        [D |-> Pos(Minute), One |-> <<"about a minute">>, Few |-> <<>>, Many |-> <<>>, Other |-> <<"%d", " minutes">>],
        [D |-> Pos(Hour), One |-> <<"about an hour">>, Few |-> <<>>, Many |-> <<>>, Other |-> <<"%d", " hours">>],
        [D |-> Pos(Day), One |-> <<"one day">>, Few |-> <<>>, Many |-> <<>>, Other |-> <<"%d", " days">>],
        [D |-> Pos(Month), One |-> <<"one month">>, Few |-> <<>>, Many |-> <<>>, Other |-> <<"%d", " months">>],
        [D |-> Pos(Year), One |-> <<"one year">>, Few |-> <<>>, Many |-> <<>>, Other |-> <<"%d", " years">>]>>,
     Zero |-> "about a second",
     Max |-> Pos(MulSmall(Hour, 73, 0)),
     DefaultLayout |-> "2006-01-02"]

\* Predefined chinese configuration (transliterated)
Chinese ==
    [LocaleID |-> "zh",
     PastPrefix |-> "", PastSuffix |-> "qian",
     FuturePrefix |-> "yu ", FutureSuffix |-> "",
     Periods |-> <<
        [D |-> Pos(Second), One |-> <<"1 miao">>, Few |-> <<>>, Many |-> <<>>, Other |-> <<"%d", " miao">>],
        [D |-> Pos(Minute), One |-> <<"1 fenzhong">>, Few |-> <<>>, Many |-> <<>>, Other |-> <<"%d", " fenzhong">>],
        [D |-> Pos(Hour), One |-> <<"1 xiaoshi">>, Few |-> <<>>, Many |-> <<>>, Other |-> <<"%d", " xiaoshi">>],
        [D |-> Pos(Day), One |-> <<"1 tian">>, Few |-> <<>>, Many |-> <<>>, Other |-> <<"%d", " tian">>],
        [D |-> Pos(Month), One |-> <<"1 yue">>, Few |-> <<>>, Many |-> <<>>, Other |-> <<"%d", " yue">>],
        [D |-> Pos(Year), One |-> <<"1 nian">>, Few |-> <<>>, Many |-> <<>>, Other |-> <<"%d", " nian">>]>>,
     Zero |-> "1 miao",
     Max |-> Pos(MulSmall(Hour, 73, 0)),
     DefaultLayout |-> "2006-01-02"]

\* Predefined french configuration
French ==
    [LocaleID |-> "fr",
     PastPrefix |-> "il y a ", PastSuffix |-> "",
     FuturePrefix |-> "dans ", FutureSuffix |-> "",
     Periods |-> <<
        [D |-> Pos(Second), One |-> <<"environ une seconde">>, Few |-> <<>>, Many |-> <<>>, Other |-> <<"moins d'une minute">>],
        [D |-> Pos(Minute), One |-> <<"environ une minute">>, Few |-> <<>>, Many |-> <<>>, Other |-> <<"%d", " minutes">>],
        [D |-> Pos(Hour), One |-> <<"environ une heure">>, Few |-> <<>>, Many |-> <<>>, Other |-> <<"%d", " heures">>],
        [D |-> Pos(Day), One |-> <<"un jour">>, Few |-> <<>>, Many |-> <<>>, Other |-> <<"%d", " jours">>],
        [D |-> Pos(Month), One |-> <<"un mois">>, Few |-> <<>>, Many |-> <<>>, Other |-> <<"%d", " mois">>],
        [D |-> Pos(Year), One |-> <<"un an">>, Few |-> <<>>, Many |-> <<>>, Other |-> <<"%d", " ans">>]>>,
     Zero |-> "environ une seconde",
     Max |-> Pos(MulSmall(Hour, 73, 0)),
     DefaultLayout |-> "02/01/2006"]

\* Predefined russian configuration (transliterated)
Russian ==
    [LocaleID |-> "ru",
     PastPrefix |-> "", PastSuffix |-> " nazad",
     FuturePrefix |-> "cherez ", FutureSuffix |-> "",
     Periods |-> <<
        [D |-> Pos(Second), One |-> <<"sekundu">>, Few |-> <<"%d", " sekundy">>, Many |-> <<"%d", " sekund">>, Other |-> <<"%d", " sekundy">>],
        [D |-> Pos(Minute), One |-> <<"okolo minuty">>, Few |-> <<"%d", " minuty">>, Many |-> <<"%d", " minut">>, Other |-> <<"%d", " minuty">>],
        [D |-> Pos(Hour), One |-> <<"okolo chasa">>, Few |-> <<"%d", " chasa">>, Many |-> <<"%d", " chasov">>, Other |-> <<"%d", " chasa">>],
        [D |-> Pos(Day), One |-> <<"den'">>, Few |-> <<"%d", " dnya">>, Many |-> <<"%d", " dney">>, Other |-> <<"%d", " dnya">>],
        [D |-> Pos(Month), One |-> <<"mesyats">>, Few |-> <<"%d", " mesyatsa">>, Many |-> <<"%d", " mesyatsev">>, Other |-> <<"%d", " mesyatsa">>],
        [D |-> Pos(Year), One |-> <<"god">>, Few |-> <<"%d", " goda">>, Many |-> <<"%d", " let">>, Other |-> <<"%d", " goda">>]>>,
     Zero |-> "okolo sekundy",
     Max |-> Pos(MulSmall(Hour, 73, 0)),
     DefaultLayout |-> "2006-01-02"]

(***************************************************************************)
(* Plural categories (package plural of go-i18n): the operands of an int   *)
(* are its absolute value I and V = 0 fraction digits.                     *)
(***************************************************************************)
Operands(n) == [I |-> n, V |-> 0]

\* pluralRussian without the exception of 11
pluralRussianNoEleven(ops) ==
    LET Rule(mod10, mod100) ==
            IF ops.V = 0 /\ mod10 = 1 THEN "one"
            ELSE IF ops.V = 0 /\ (mod10 >= 2 /\ mod10 <= 4) /\ (mod100 < 12 \/ mod100 > 14)
            THEN "few"
            ELSE IF ops.V = 0 /\ (mod10 = 0 \/ (mod10 >= 5 /\ mod10 <= 9)
                                          \/ (mod100 >= 11 /\ mod100 <= 14))
            THEN "many"
            ELSE "other"
    IN  Rule(ModSmall(ops.I, 10), ModSmall(ops.I, 100))

\* PluralFunc of pluralRussian
pluralRussian(ops) ==
    LET Rule(mod10, mod100) ==
            IF ops.V = 0 /\ mod10 = 1 /\ mod100 # 11 THEN "one"
            ELSE IF ops.V = 0 /\ (mod10 >= 2 /\ mod10 <= 4) /\ (mod100 < 12 \/ mod100 > 14)
            THEN "few"
            ELSE IF ops.V = 0 /\ (mod10 = 0 \/ (mod10 >= 5 /\ mod10 <= 9)
                                          \/ (mod100 >= 11 /\ mod100 <= 14))
            THEN "many"
            ELSE "other"
    IN  Rule(ModSmall(ops.I, 10), ModSmall(ops.I, 100))

\* language.LanguageWithID(id).PluralCategory(number): "ru" is the language
\* init() registers; "en", "fr" and "zh" are go-i18n's own (one for 1, one
\* for 0 and 1, and no category but other)
PluralCategory(id, number) ==
    LET Category(ops) ==
            IF id = "ru" THEN pluralRussian(ops)
            ELSE IF id = "en" THEN (IF ops.I = <<1>> /\ ops.V = 0 THEN "one" ELSE "other")
            ELSE IF id = "fr" THEN (IF Cmp(ops.I, <<2>>) < 0 THEN "one" ELSE "other")
            ELSE "other"
    IN  Category(Operands(number))

(***************************************************************************)
(* The formatter.                                                          *)
(***************************************************************************)
Zero64 == Pos(<<>>)

\* What getTimeText returns, with the period it stopped in (0: none) and
\* the count it computed there.  The second result of the code, the rest
\* d - r*p.D, is dropped by FormatRelativeDuration, its only caller.
Text(text, period, count) == [text |-> text, period |-> period, count |-> count]

\* the template of period p for a plural category, that of Other when there
\* is none for the category
LayoutForFallback(p, pluralCategory) ==
    LET Fallback(layout) == IF layout = <<>> THEN p.Other ELSE layout
    IN  IF pluralCategory = "one" THEN Fallback(p.One)
        ELSE IF pluralCategory = "few" THEN Fallback(p.Few)
        ELSE IF pluralCategory = "many" THEN Fallback(p.Many)
        ELSE IF pluralCategory = "invalid" THEN <<>>
        ELSE p.Other

\* the template of period p for a plural category
LayoutFor(p, pluralCategory) ==
    IF pluralCategory = "one" THEN p.One
    ELSE IF pluralCategory = "few" THEN p.Few
    ELSE IF pluralCategory = "many" THEN p.Many
    ELSE IF pluralCategory = "invalid" THEN <<>>
    ELSE p.Other

\* the end of the loop body of getTimeText: the text of r periods, for
\* period i of the configuration
PeriodLayout(cfg, i, r) ==
    LET Render(layout) ==
            IF nbParamInFormat(layout) = 0
            THEN Text(Join(layout), i, r)
            ELSE Text(Sprintf(layout, r), i, r)
        Plural(pluralNumber) ==
            With(PluralCategory(cfg.LocaleID, pluralNumber),
                 LAMBDA pluralCategory : Render(LayoutFor(cfg.Periods[i], pluralCategory)))
    IN  IF r = Zero64 THEN Text("", i, r)
        ELSE With(durationNumber(r), Plural)

RECURSIVE PeriodText(_, _, _, _)

\* PeriodText with the carry to the next period left out
PeriodTextNoCarry(cfg, d, roundCloser, i) ==
    IF i > Len(cfg.Periods) THEN Text(Join(DurationString(d)), 0, Zero64)
    ELSE IF i = Len(cfg.Periods) \/ Less(d, cfg.Periods[i + 1].D)
    THEN With(round(d, cfg.Periods[i].D, roundCloser), LAMBDA r : PeriodLayout(cfg, i, r))
    ELSE PeriodText(cfg, d, roundCloser, i + 1)

\* PeriodText with the carry leaving the loop instead of continuing it
PeriodTextBreak(cfg, d, roundCloser, i) ==
    LET p == cfg.Periods[i]
        Rounded(next, r) ==
            IF next # p.D /\ r = round(next, p.D, roundCloser)
            THEN Text(Join(DurationString(d)), 0, Zero64)
            ELSE PeriodLayout(cfg, i, r)
        Period(next) ==
            IF i = Len(cfg.Periods) \/ Less(d, next)
            THEN With(round(d, p.D, roundCloser), LAMBDA r : Rounded(next, r))
            ELSE PeriodText(cfg, d, roundCloser, i + 1)
    IN  IF i > Len(cfg.Periods) THEN Text(Join(DurationString(d)), 0, Zero64)
        ELSE Period(IF i + 1 <= Len(cfg.Periods) THEN cfg.Periods[i + 1].D ELSE p.D)

\* the loop of getTimeText from period i on
PeriodText(cfg, d, roundCloser, i) ==
    IF i > Len(cfg.Periods) THEN Text(Join(DurationString(d)), 0, Zero64)
    ELSE
    LET p == cfg.Periods[i]
        Rounded(next, r) ==
            IF next # p.D /\ r = round(next, p.D, roundCloser)
            THEN PeriodText(cfg, d, roundCloser, i + 1)
            ELSE PeriodLayout(cfg, i, r)
        \* next is the unit of the period after p, or p's own for the last
        Period(next) ==
            IF i = Len(cfg.Periods) \/ Less(d, next)
            THEN With(round(d, p.D, roundCloser), LAMBDA r : Rounded(next, r))
            ELSE PeriodText(cfg, d, roundCloser, i + 1)
    IN  Period(IF i + 1 <= Len(cfg.Periods) THEN cfg.Periods[i + 1].D ELSE p.D)

\* Convert a duration to a text, based on the current config
getTimeText(cfg, d, roundCloser) ==
    IF Len(cfg.Periods) = 0 \/ Less(d, cfg.Periods[1].D)
    THEN Text(cfg.Zero, 0, Zero64)
    ELSE PeriodText(cfg, d, roundCloser, 1)

\* What a formatting call returns: the string of the fuzzy branch with the
\* phrase, period and count inside it, or t.Format(layout) of package time,
\* kept as the time and the layout it is called with.
Fuzzy(text, isPast, s) ==
    [branch |-> "fuzzy", text |-> text, isPast |-> isPast, phrase |-> s.text,
     period |-> s.period, count |-> s.count, layout |-> <<>>]
TimeFormat(t, layout) ==
    [branch |-> "layout", text |-> "", isPast |-> FALSE, phrase |-> "",
     period |-> 0, count |-> Zero64, layout |-> <<t, layout>>]

\* FormatRelativeDuration with a delta of zero taken for the future
FormatRelativeDurationStrict(cfg, d) ==
    LET Result(isPast, s) ==
            IF isPast
            THEN Fuzzy(Join(<<cfg.PastPrefix, s.text, cfg.PastSuffix>>), isPast, s)
            ELSE Fuzzy(Join(<<cfg.FuturePrefix, s.text, cfg.FutureSuffix>>), isPast, s)
    IN  With(getTimeText(cfg, IF Less(d, Zero64) THEN Negate(d) ELSE d, TRUE),
             LAMBDA s : Result(Less(Zero64, d), s))

\* FormatRelativeDuration is the same as Format, but for time.Duration.
FormatRelativeDuration(cfg, d) ==
    LET Result(isPast, s) ==
            IF isPast
            THEN Fuzzy(Join(<<cfg.PastPrefix, s.text, cfg.PastSuffix>>), isPast, s)
            ELSE Fuzzy(Join(<<cfg.FuturePrefix, s.text, cfg.FutureSuffix>>), isPast, s)
    IN  With(getTimeText(cfg, IF Less(d, Zero64) THEN Negate(d) ELSE d, TRUE),
             LAMBDA s : Result(GreaterEq(d, Zero64), s))

\* FormatReference is the same as Format, but the reference has to be
\* defined by the caller
FormatReference(cfg, t, reference) ==
    LET Result(d) ==
            IF (GreaterEq(d, Zero64) /\ GreaterEq(d, cfg.Max))
               \/ (Less(d, Zero64) /\ GreaterEq(Negate(d), cfg.Max))
            THEN TimeFormat(t, cfg.DefaultLayout)
            ELSE FormatRelativeDuration(cfg, d)
    IN  With(TimeSub(reference, t), Result)

\* Format compares the time to time.Now()
Format(cfg, t, now) == FormatReference(cfg, t, now)

RFC3339 == "2006-01-02T15:04:05Z07:00"

\* WithMax with the layout of the configuration it copies
WithMaxKeepLayout(cfg, max, defaultLayout) == [cfg EXCEPT !.Max = max]

\* WithMax creates an new config with special formatting limited to
\* durations less than max.
WithMax(cfg, max, defaultLayout) ==
    [[cfg EXCEPT !.Max = max] EXCEPT !.DefaultLayout = defaultLayout]

\* NoMax creates an new config without a maximum
NoMax(cfg) == WithMax(cfg, maxDuration, RFC3339)

(***************************************************************************)
(* Configurations a caller builds: period units that are not multiples of  *)
(* one another, and no period at all.                                      *)
(***************************************************************************)
Uneven ==
    [LocaleID |-> "en",
     PastPrefix |-> "", PastSuffix |-> " ago",
     FuturePrefix |-> "in ", FutureSuffix |-> "",
     Periods |-> <<
        [D |-> Pos(MulSmall(Second, 10, 0)), One |-> <<"a tick">>, Few |-> <<>>, Many |-> <<>>, Other |-> <<"%d", " ticks">>],
        [D |-> Pos(MulSmall(Second, 12, 0)), One |-> <<"a dozen">>, Few |-> <<>>, Many |-> <<>>, Other |-> <<"%d", " dozens">>],
        [D |-> Pos(MulSmall(Second, 17, 0)), One |-> <<"a while">>, Few |-> <<>>, Many |-> <<>>, Other |-> <<"%d", " whiles">>],
        [D |-> Pos(MulSmall(Second, 25, 0)), One |-> <<"a spell">>, Few |-> <<>>, Many |-> <<>>, Other |-> <<"%d", " spells">>]>>,
     Zero |-> "just now",
     Max |-> Pos(MulSmall(Hour, 73, 0)),
     DefaultLayout |-> "2006-01-02"]

NoPeriods ==
    [LocaleID |-> "en",
     PastPrefix |-> "", PastSuffix |-> " ago",
     FuturePrefix |-> "in ", FutureSuffix |-> "",
     Periods |-> <<>>,
     Zero |-> "now",
     Max |-> Pos(MulSmall(Hour, 73, 0)),
     DefaultLayout |-> "2006-01-02"]

\* the English configuration with no period but the seconds
OnlySeconds == [English EXCEPT !.Periods = <<English.Periods[1]>>]

\* the Russian configuration with two-category periods: One and Other
TwoForms ==
    [Russian EXCEPT !.Periods =
        [i \in 1..Len(Russian.Periods) |->
            [Russian.Periods[i] EXCEPT !.Few = <<>>, !.Many = <<>>]]]

Locales == {English, Chinese, French, Russian}
Configs == Locales \cup {Uneven, NoPeriods, OnlySeconds, TwoForms}

(***************************************************************************)
(* The inputs.  Magnitudes lie on and next to the places where the text    *)
(* changes: c units, c units and a half, and a nanosecond less, for the    *)
(* six units of the predefined tables; the last count before the next unit *)
(* takes over; whole seconds; the ends of the Duration range.              *)
(***************************************************************************)
MaxCount == 3
MaxSeconds == 25

Units == <<Second, Minute, Hour, Day, Month, Year>>

\* the rounded number of units i in a unit i + 1: 60, 60, 24, 30, 12
Ratio(i) == RoundCount(Units[i + 1], Units[i], TRUE)

Around(u, c) ==
    LET Near(half) == {MulSmall(u, c, 0), Sub(half, <<1>>), half}
    IN  Near(Add(MulSmall(u, c, 0), DivSmall(u, 2)))

Magnitudes ==
    {<<>>, MulSmall(Millisecond, 100, 0), Sub(Second, <<1>>)}
    \cup UNION {Around(Units[i], c) : i \in 1..6, c \in 1..MaxCount}
    \cup UNION {Around(Units[i], ToInt(Ratio(i)) - 1) : i \in 1..5}
    \cup {Sub(Units[i + 1], <<1>>) : i \in 1..5}
    \cup {MulSmall(Second, c, 0) : c \in 1..MaxSeconds}
    \cup {MulSmall(Second, 42, 0), MulSmall(Hour, 11, 0), MulSmall(Day, 11, 0)}
    \cup {MulSmall(Second, 1000, 0), MulSmall(Second, 1001, 0)}
    \cup {Sub(MulSmall(Hour, 73, 0), <<1>>), MulSmall(Hour, 73, 0)}
    \cup {MulSmall(Day, 547, 0), MulSmall(Day, 548, 0), MulSmall(Year, 10, 0),
          MulSmall(Year, 111, 0), MulSmall(Year, 292, 0)}
    \cup {Sub(maxDuration.mag, <<1>>), maxDuration.mag}

\* distances between two times that no Duration holds
FarMagnitudes == {Two63, MulSmall(Year, 300, 0)}

\* the magnitudes above m, and the least of them
Above(m) == {n \in Magnitudes : Cmp(n, m) > 0}
Least(S) == CHOOSE m \in S : \A n \in S : Cmp(m, n) <= 0

\* the base time of the tests, and the times after it
tBase == Zero64
Times == {Pos(m) : m \in Magnitudes \cup FarMagnitudes}

\* the pairs (t, reference) with one of the two at the base time
TimePairs == {<<tBase, u>> : u \in Times} \cup {<<u, tBase>> : u \in Times}

Durations == {Signed(neg, m) : neg \in BOOLEAN, m \in Magnitudes} \cup {minDuration}

\* the arguments of WithMax
WithMaxArgs == {<<Pos(MulSmall(Minute, 90, 0)), "2006-01-02">>, <<Zero64, "">>}

\* Format reads the clock: a time 42 seconds from the first reading, before
\* or after, and a second reading at or just after the first
ClockPairs ==
    {<<Signed(neg, MulSmall(Second, 42, 0)), now>> :
        neg \in BOOLEAN, now \in {tBase, Pos(Nanosecond), Pos(Millisecond)}}

(***************************************************************************)
(* The state: a caller takes a configuration, derives one from it or not,  *)
(* and formats with it, once or for every magnitude in ascending order.    *)
(***************************************************************************)
VARIABLES
    base,    \* the configuration the caller starts from
    cfg,     \* the configuration it formats with
    pc,      \* "start", "ready", "done" or "sweep"
    call,    \* the last call and its arguments
    out,     \* what the last formatting call returned
    sweep    \* [k, m, below]: in a sweep, the number of magnitudes formatted,
             \* the last of them, and the highest period shown before it

vars == <<base, cfg, pc, call, out, sweep>>

NoTime == Zero64
Call(op, t, reference, d, max, layout) ==
    [op |-> op, t |-> t, reference |-> reference, d |-> d, max |-> max, layout |-> layout]
NoCall == Call("none", NoTime, NoTime, Zero64, Zero64, "")
NoOut == [branch |-> "none", text |-> "", isPast |-> FALSE, phrase |-> "",
          period |-> 0, count |-> Zero64, layout |-> <<>>]
NoSweep == [k |-> 0, m |-> <<>>, below |-> 0]

Init ==
    /\ base \in Configs
    /\ cfg = base
    /\ pc = "start"
    /\ call = NoCall
    /\ out = NoOut
    /\ sweep = NoSweep

\* the caller formats with the configuration as it is
UseBase ==
    /\ pc = "start"
    /\ pc' = "ready"
    /\ UNCHANGED <<base, cfg, call, out, sweep>>

CallNoMax ==
    /\ pc = "start"
    /\ cfg' = NoMax(base)
    /\ call' = Call("NoMax", NoTime, NoTime, Zero64, Zero64, "")
    /\ pc' = "ready"
    /\ UNCHANGED <<base, out, sweep>>

CallWithMax ==
    /\ pc = "start"
    /\ \E a \in WithMaxArgs :
        /\ cfg' = WithMax(base, a[1], a[2])
        /\ call' = Call("WithMax", NoTime, NoTime, Zero64, a[1], a[2])
    /\ pc' = "ready"
    /\ UNCHANGED <<base, out, sweep>>

CallFormatReference ==
    /\ pc = "ready"
    /\ \E p \in TimePairs :
        /\ out' = FormatReference(cfg, p[1], p[2])
        /\ call' = Call("FormatReference", p[1], p[2], Zero64, Zero64, "")
    /\ pc' = "done"
    /\ UNCHANGED <<base, cfg, sweep>>

CallFormatRelativeDuration ==
    /\ pc = "ready"
    /\ \E d \in Durations :
        /\ out' = FormatRelativeDuration(cfg, d)
        /\ call' = Call("FormatRelativeDuration", NoTime, NoTime, d, Zero64, "")
    /\ pc' = "done"
    /\ UNCHANGED <<base, cfg, sweep>>

CallFormat ==
    /\ pc = "ready"
    /\ \E p \in ClockPairs :
        /\ out' = Format(cfg, p[1], p[2])
        /\ call' = Call("Format", p[1], p[2], Zero64, Zero64, "")
    /\ pc' = "done"
    /\ UNCHANGED <<base, cfg, sweep>>

\* FormatRelativeDuration of the next magnitude in ascending order
SweepNext ==
    /\ pc \in {"ready", "sweep"}
    /\ sweep.k < Cardinality(Magnitudes)
    /\ \E m \in {Least(IF sweep.k = 0 THEN Magnitudes ELSE Above(sweep.m))} :
        /\ out' = FormatRelativeDuration(cfg, Pos(m))
        /\ call' = Call("FormatRelativeDuration", NoTime, NoTime, Pos(m), Zero64, "")
        /\ sweep' = [k |-> sweep.k + 1, m |-> m,
                     below |-> IF sweep.k = 0 THEN 0
                               ELSE IF out.period > sweep.below THEN out.period
                               ELSE sweep.below]
    /\ pc' = "sweep"
    /\ UNCHANGED <<base, cfg>>

Next ==
    \/ UseBase
    \/ CallNoMax
    \/ CallWithMax
    \/ CallFormatReference
    \/ CallFormatRelativeDuration
    \/ CallFormat
    \/ SweepNext

Spec == Init /\ [][Next]_vars

(***************************************************************************)
(* The claims.                                                             *)
(***************************************************************************)
Formatted == call.op \in {"Format", "FormatReference", "FormatRelativeDuration"}
Referenced == call.op \in {"Format", "FormatReference"}

\* the duration the last formatting call formats
Delta ==
    IF call.op = "FormatRelativeDuration" THEN call.d
    ELSE TimeSub(call.reference, call.t)

\* the configuration has the six units of the predefined tables
EnglishStyle(c) ==
    /\ Len(c.Periods) = Len(Units)
    /\ \A i \in 1..Len(Units) : c.Periods[i].D = Pos(Units[i])

\* the first period whose next unit is above d, or the last period, d >= 1s
Bucket(d) ==
    CHOOSE i \in 1..Len(Units) :
        /\ i = 1 \/ Cmp(d, Units[i]) >= 0
        /\ i = Len(Units) \/ Cmp(d, Units[i + 1]) < 0

HalfToHour == Add(MulSmall(Minute, 59, 0), MulSmall(Second, 30, 0))

\* floor(d / step + 1/2) in exact arithmetic: round half up
RoundHalfUp(d, step) == DivMod(Add(MulSmall(d, 2, 0), step), MulSmall(step, 2, 0)).q

\* C1: FormatReference returns t in the default layout when |reference - t|
\* is at least Max, and the fuzzy phrase of FormatRelativeDuration otherwise,
\* for every configuration and every pair of times.
C1_MaxCutoff ==
    Referenced =>
        IF GreaterEq(Pos(Delta.mag), cfg.Max)
        THEN out = TimeFormat(call.t, cfg.DefaultLayout)
        ELSE out = FormatRelativeDuration(cfg, Delta)

\* C2: with the six English units and a magnitude of at least a second,
\* the period shown is the first whose next unit is above the magnitude and
\* the count shown is floor(d / unit + 1/2), one giving the singular and two
\* or more the plural template, unless the count carries to the next period.
C2_BucketAndCount ==
    (call.op = "FormatRelativeDuration" /\ EnglishStyle(cfg)
        /\ call.d # minDuration /\ Cmp(call.d.mag, Second) >= 0) =>
        LET Shown(i, r) ==
                IF i < Len(Units) /\ r = Ratio(i) THEN out.period = i + 1
                ELSE /\ out.period = i
                     /\ out.count = Pos(r)
                     /\ cfg.LocaleID = "en" =>
                            out.phrase = IF r = <<1>> THEN Join(cfg.Periods[i].One)
                                         ELSE Sprintf(cfg.Periods[i].Other, Pos(r))
            In(i) == With(RoundHalfUp(call.d.mag, Units[i]), LAMBDA r : Shown(i, r))
        IN  With(Bucket(call.d.mag), In)

\* C3: with the six English units, a count that rounds to the rounded number
\* of units in the next unit is shown as one of the next period, so that no
\* count shown equals that number; 59min30s is "about an hour ago" and a
\* nanosecond less "59 minutes ago".
C3_CarryForward ==
    (Formatted /\ out.branch = "fuzzy" /\ EnglishStyle(cfg)) =>
        /\ out.period \in 1..(Len(Units) - 1) => out.count.mag # Ratio(out.period)
        /\ (Delta # minDuration /\ Cmp(Delta.mag, Second) >= 0) =>
            LET Carried(i) ==
                    (i < Len(Units) /\ RoundCount(Delta.mag, Units[i], TRUE) = Ratio(i)) =>
                        /\ out.period = i + 1
                        /\ out.count = Pos(<<1>>)
                        /\ out.phrase = Join(cfg.Periods[i + 1].One)
            IN  With(Bucket(Delta.mag), Carried)
        /\ (cfg.LocaleID = "en" /\ Delta = Pos(HalfToHour)) =>
                out.text = "about an hour ago"
        /\ (cfg.LocaleID = "en" /\ Delta = Pos(Sub(HalfToHour, <<1>>))) =>
                out.text = "59 minutes ago"

\* C3: a delta of 59min30s was carried from the minutes to "about an hour"
C3_Witness ==
    /\ call.op = "FormatRelativeDuration" /\ call.d = Pos(HalfToHour)
    /\ cfg = English /\ out.period = 3 /\ out.text = "about an hour ago"

\* C4: FormatRelativeDuration wraps the phrase of |delta| in the past pair
\* for delta >= 0 and in the future pair for delta < 0, for every signed
\* delta.
C4_SignSelection ==
    call.op = "FormatRelativeDuration" =>
        LET Wrapped(phrase) ==
                /\ out.phrase = phrase
                /\ out.text = IF call.d.neg
                              THEN cfg.FuturePrefix \o phrase \o cfg.FutureSuffix
                              ELSE cfg.PastPrefix \o phrase \o cfg.PastSuffix
        IN  With(getTimeText(cfg, Pos(call.d.mag), TRUE).text, Wrapped)

\* C5 as claimed: for every configuration, FormatReference of a time and
\* itself is PastPrefix + Zero + PastSuffix.
C5_ZeroEveryConfig ==
    (Referenced /\ call.t = call.reference) =>
        /\ out.branch = "fuzzy" /\ out.isPast
        /\ out.text = cfg.PastPrefix \o cfg.Zero \o cfg.PastSuffix

\* C5 as amended: for every configuration whose Max is positive,
\* FormatReference of a time and itself is PastPrefix + Zero + PastSuffix.
C5_ZeroPositiveMax ==
    (Referenced /\ call.t = call.reference /\ Less(Zero64, cfg.Max)) =>
        /\ out.branch = "fuzzy" /\ out.isPast
        /\ out.text = cfg.PastPrefix \o cfg.Zero \o cfg.PastSuffix

\* C5: a time was formatted against itself in English
C5_Witness ==
    /\ call.op = "FormatReference" /\ call.t = call.reference
    /\ cfg = English /\ out.text = "about a second ago"

\* C6: with a configuration of NoMax, FormatReference never returns the time
\* in the default layout, whatever the two times.
C6_NoMaxNeverAbsolute ==
    (Referenced /\ cfg = NoMax(base)) => out.branch = "fuzzy"

\* C7: WithMax and NoMax leave the configuration they are given as it was,
\* and WithMax returns it with Max and DefaultLayout set to its arguments and
\* every other field the same.
C7_WithMaxFrame ==
    /\ base \in Configs
    /\ call.op \in {"WithMax", "NoMax"} =>
        /\ cfg.LocaleID = base.LocaleID
        /\ cfg.PastPrefix = base.PastPrefix /\ cfg.PastSuffix = base.PastSuffix
        /\ cfg.FuturePrefix = base.FuturePrefix /\ cfg.FutureSuffix = base.FutureSuffix
        /\ cfg.Periods = base.Periods /\ cfg.Zero = base.Zero
    /\ call.op = "WithMax" =>
        /\ cfg.Max = call.max
        /\ cfg.DefaultLayout = call.layout

\* C7: WithMax returned a configuration with another Max and layout
C7_Witness ==
    /\ call.op = "WithMax" /\ cfg.Max # base.Max
    /\ cfg.DefaultLayout # base.DefaultLayout

\* the rule of C8 for a count n: "one", "few" or "many"
SlavicCategory(n) ==
    LET Rule(mod10, mod100) ==
            IF mod10 = 1 /\ mod100 # 11 THEN "one"
            ELSE IF mod10 \in 2..4 /\ mod100 \notin 12..14 THEN "few"
            ELSE "many"
    IN  Rule(ModSmall(n, 10), ModSmall(n, 100))

\* C8: a Russian count n is one when n mod 10 = 1 and n mod 100 # 11, few
\* when n mod 10 is in 2..4 and n mod 100 not in 12..14, and many otherwise,
\* and is shown with the One, Few or Many template of its period.
C8_RussianPlural ==
    (Formatted /\ out.branch = "fuzzy" /\ cfg.LocaleID = "ru"
               /\ cfg.Periods = Russian.Periods /\ out.period > 0) =>
        LET Shown(p, category) ==
                out.phrase = IF category = "one" THEN Join(p.One)
                             ELSE IF category = "few" THEN Sprintf(p.Few, out.count)
                             ELSE Sprintf(p.Many, out.count)
        IN  /\ With(SlavicCategory(out.count.mag),
                    LAMBDA category : Shown(cfg.Periods[out.period], category))
            /\ (out.period = 1 /\ out.count = Pos(<<11>>)) => out.phrase = "11 sekund"
            /\ (out.period = 3 /\ out.count = Pos(<<23>>)) => out.phrase = "23 chasa"

\* C8: 21 seconds were shown in Russian with the One template
C8_Witness ==
    /\ Formatted /\ cfg.LocaleID = "ru" /\ out.period = 1
    /\ out.count = Pos(<<21>>) /\ out.phrase = "sekundu"

\* C9: as the magnitude grows, the period FormatRelativeDuration shows
\* never comes before a period it showed for a smaller magnitude.
C9_Monotone == pc = "sweep" => sweep.below <= out.period

\* C9: the sweep passed the carry from the minutes to the hours
C9_Witness ==
    /\ pc = "sweep" /\ sweep.m = HalfToHour
    /\ sweep.below = 2 /\ out.period = 3

\* C10: English.Format of a time 42 seconds after now is "less than a
\* minute ago".
C10_ReadmeExample ==
    (Referenced /\ cfg = English /\ call.t = Pos(MulSmall(Second, 42, 0))
        /\ call.reference = tBase) =>
        out.text = "less than a minute ago"

\* the period units of c are positive and strictly increasing
WellOrdered(c) ==
    /\ Len(c.Periods) >= 1
    /\ \A i \in 1..Len(c.Periods) : Less(Zero64, c.Periods[i].D)
    /\ \A i \in 1..(Len(c.Periods) - 1) : Less(c.Periods[i].D, c.Periods[i + 1].D)

\* C11: with period units that are positive and strictly increasing and a
\* magnitude of at least the first unit, getTimeText never stops in a period
\* with a rounded count of zero, so the phrase is never the empty one of
\* that case.
C11_NoEmptyPhrase ==
    (/\ Formatted
     /\ out.branch = "fuzzy"
     /\ WellOrdered(cfg)
     /\ GreaterEq(Pos(Delta.mag), cfg.Periods[1].D))
    => ~(out.period > 0 /\ out.count = Zero64 /\ out.phrase = "")

\* the phrase of r periods i of c when the plural category is that of r
PhraseOf(c, i, r) ==
    LET Render(layout) ==
            IF nbParamInFormat(layout) = 0 THEN Join(layout) ELSE Sprintf(layout, r)
    IN  With(PluralCategory(c.LocaleID, r.mag),
             LAMBDA pluralCategory : Render(LayoutFor(c.Periods[i], pluralCategory)))

\* C12: for every rounded count r >= 1, the number durationNumber extracts
\* from r is r itself, and the template that is shown is the one of the
\* plural category of r, with r in it.
C12_PluralOfCount ==
    (Formatted /\ out.branch = "fuzzy" /\ out.period > 0 /\ Less(Zero64, out.count)) =>
        /\ durationNumber(out.count) = out.count.mag
        /\ out.phrase = PhraseOf(cfg, out.period, out.count)

\* the text of r periods with a template
Rendered(layout, r) ==
    IF nbParamInFormat(layout) = 0 THEN Join(layout) ELSE Sprintf(layout, r)

\* the field of period p named by a category
Template(p, category) ==
    IF category = "one" THEN p.One
    ELSE IF category = "few" THEN p.Few
    ELSE IF category = "many" THEN p.Many
    ELSE p.Other

\* the category getTimeText resolves for the count it shows
Resolved == PluralCategory(cfg.LocaleID, durationNumber(out.count))

\* C13 as claimed: when the period has no template for the category that is
\* resolved, the phrase is that of the Other template; one shows the One
\* template and other the Other template.
C13_FallbackToOther ==
    (Formatted /\ out.branch = "fuzzy" /\ out.period > 0 /\ Less(Zero64, out.count)) =>
        LET Shown(p, layout) ==
                out.phrase = Rendered(IF layout = <<>> THEN p.Other ELSE layout, out.count)
            Chosen(p, category) == Shown(p, Template(p, category))
        IN  With(Resolved, LAMBDA category : Chosen(cfg.Periods[out.period], category))

\* C13 as amended: the phrase is that of the template of the category that
\* is resolved, One, Few or Many, also when the period has none (the phrase
\* is empty then, Other is not used for it); other shows the Other template.
C13_TemplateOfCategory ==
    (Formatted /\ out.branch = "fuzzy" /\ out.period > 0 /\ Less(Zero64, out.count)) =>
        LET Shown(p, category) ==
                /\ out.phrase = Rendered(Template(p, category), out.count)
                /\ (category # "other" /\ Template(p, category) = <<>>) => out.phrase = ""
        IN  With(Resolved, LAMBDA category : Shown(cfg.Periods[out.period], category))

\* C13: 3 seconds, few in Russian, were shown with periods that have no Few
\* template but have an Other template
C13_Witness ==
    /\ Formatted /\ out.branch = "fuzzy" /\ cfg.LocaleID = "ru"
    /\ out.period = 1 /\ out.count = Pos(<<3>>)
    /\ cfg.Periods[1].Few = <<>> /\ cfg.Periods[1].Other # <<>>
    /\ out.phrase = ""

\* the magnitude FormatReference compares with Max and FormatRelativeDuration
\* hands to getTimeText: d, or -d for a negative d
Magnitude(d) == IF Less(d, Zero64) THEN Negate(d) ELSE d

\* C14: for every delta the Duration type holds, the smallest one included,
\* the magnitude that is compared with Max and handed to getTimeText is not
\* negative: a time after the reference is shown in the default layout when
\* it is Max or more away, and is not shown with the zero phrase when it is
\* at least the first unit away.
C14_NonNegativeMagnitude ==
    Formatted =>
        /\ GreaterEq(Magnitude(Delta), Zero64)
        /\ (Referenced /\ Delta.neg /\ GreaterEq(Pos(Delta.mag), cfg.Max)) =>
                out.branch = "layout"
        /\ (/\ out.branch = "fuzzy" /\ Delta.neg
            /\ Len(cfg.Periods) > 0
            /\ GreaterEq(Pos(Delta.mag), cfg.Periods[1].D)) =>
                ~(out.period = 0 /\ out.phrase = cfg.Zero)


=============================================================================
